---- MODULE Spec2Model ----
(***************************************************************************)
(* Verification model of the notetaker video-processing pipeline.          *)
(*                                                                         *)
(*   SpecChunks : transcribe_audio_chunks (transcription_service.py), the  *)
(*                semaphore-bounded fan-out over the chunks of one audio   *)
(*                file and the merge of the per-chunk results.             *)
(*   Spec       : process_video_task (worker.py) and process_video         *)
(*                (video_service.py) acting on the durable Video and       *)
(*                Transcription rows of one job.                           *)
(*   SpecRun    : one run of process_video on a job without a row.         *)
(*   SpecTask   : deliveries of process_video_task alone.                  *)
(*   SpecPipe   : one run of process_video with transcribe_audio_chunks    *)
(*                running inside it.                                       *)
(*   SpecSplit  : split_audio_into_chunks (audio_service.py).              *)
(*   SpecAsr    : transcribe_audio (transcription_service.py) and its      *)
(*                fallback.                                                *)
(*   SpecOne    : one run of either function on a job in any state.        *)
(*   SpecChunksFair : SpecChunks with weak fairness, for termination.      *)
(*                                                                         *)
(* Times are fixed-point tenths of a second (100 = 10.0 s, 94 = 9.4 s).    *)
(* Texts are sequences of one-character strings, so that joining with a    *)
(* separator is an operation on the text and not an identity.              *)
(***************************************************************************)
EXTENDS Integers, Sequences, FiniteSets, TLC

\* ------------------------------------------------------------------------
\* Bounds
\* ------------------------------------------------------------------------
MaxChunks == 3

MaxConcurrent == 2

MaxRuns == 2

\* audio sizes run up to MaxMultiple * max_chunk_bytes + 1
MaxMultiple == 3

\* depth of nested transcribe_audio frames at which a further call raises
\* RecursionError (sys.getrecursionlimit, scaled down)
MaxDepth == 4

\* ------------------------------------------------------------------------
\* Configuration (config.py)
\* ------------------------------------------------------------------------
transcription_model == "whisper-1"

transcription_fallback_model == "gpt-4o-mini-transcribe"

chunk_threshold_mb == 4

VARIABLES
    \* ---- transcribe_audio_chunks ----
    chunks,        \* number of chunks passed in (len(chunks))
    max_concurrent,\* the max_concurrent argument
    semaphore,     \* value of asyncio.Semaphore(max_concurrent)
    task,          \* task[i]: position of transcribe_chunk_async(i-1, ..)
    taskResult,    \* taskResult[i]: value transcribe_audio returned to task i,
                   \* or NoResult
    completed,     \* indices of finished calls, in completion order
    gatherPc,      \* position of the coroutine awaiting asyncio.gather
    combined,      \* value returned by transcribe_audio_chunks, or NoResult
    \* ---- process_video_task / process_video ----
    status,        \* videos.status of the job
    transcription, \* the job's transcriptions row, or NoRow
    duration_seconds, \* videos.duration_seconds: "null" or "set"
    r2_key,        \* TRUE iff videos.r2_key is set
    kind,          \* kind[r]: "none", "task" (process_video_task), "pv"
    pc,            \* pc[r]: position of run r
    local,         \* local[r]: local variables of run r
    hist,          \* hist[r]: what run r has done so far (observation only)
    \* ---- split_audio_into_chunks ----
    split,         \* locals, position and temp files of one call
    \* ---- transcribe_audio ----
    asr            \* settings, call stack and API calls of one call

chunkVars == <<chunks, max_concurrent, semaphore, task, taskResult,
               completed, gatherPc, combined>>

jobVars == <<status, transcription, duration_seconds, r2_key, kind, pc,
             local, hist>>

unitVars == <<split, asr>>

vars == <<chunks, max_concurrent, semaphore, task, taskResult, completed,
          gatherPc, combined, status, transcription, duration_seconds,
          r2_key, kind, pc, local, hist, split, asr>>

NoResult == [none |-> TRUE]

\* ========================================================================
\* split_audio_into_chunks
\* ========================================================================

AudioPath == [file |-> "audio", n |-> 0]

\* chunk_filename = f"{base_name}_chunk_{i+1:03d}.mp3"
ChunkPath(i) == [file |-> "chunk", n |-> i + 1]

\* max_chunk_bytes = max_chunk_size_mb * 1024 * 1024
MaxChunkBytes(max_chunk_size_mb) == max_chunk_size_mb * 1024 * 1024

\* audio sizes at and next to the multiples of max_chunk_bytes
AudioSizes(max_chunk_bytes) ==
    {k * max_chunk_bytes + d : k \in 0..MaxMultiple, d \in {-1, 0, 1}} \cap Nat

\* os.path.getsize(chunk_path) of a chunk ffmpeg has written
ChunkSizes(max_chunk_bytes) == {1, max_chunk_bytes}

NeverFits(audio_size, max_chunk_bytes) == FALSE

\* if audio_size <= max_chunk_bytes: return [(audio_path, audio_size)]
FitsInOneChunk(audio_size, max_chunk_bytes) == audio_size <= max_chunk_bytes

\* num_chunks = int((audio_size / max_chunk_bytes) + 1)
NumChunks(audio_size, max_chunk_bytes) == (audio_size \div max_chunk_bytes) + 1

KeepChunks(disk, chunkList) == disk

\* for chunk_path, _ in chunks: cleanup_audio_file(chunk_path)
CleanupChunks(disk, chunkList) ==
    disk \ {chunkList[j].path : j \in 1..Len(chunkList)}

Split0 == [pc |-> "idle", exists |-> FALSE, audio_size |-> 0,
           max_chunk_bytes |-> 0, num_chunks |-> 0, chunks |-> << >>,
           disk |-> {}, probes |-> 0, commands |-> 0, raised |-> "none",
           returned |-> << >>]

IdleSplit == split = Split0

InitSplit ==
    \E mb \in {1, chunk_threshold_mb} :
        \E size \in AudioSizes(MaxChunkBytes(mb)) :
            \E e \in BOOLEAN :
                split = [Split0 EXCEPT !.pc = "start", !.exists = e,
                                       !.audio_size = size,
                                       !.max_chunk_bytes = MaxChunkBytes(mb)]

\* lines 130-139: the existence check and the single-chunk return
SplitCheck ==
    /\ split.pc = "start"
    /\ split' =
         IF ~split.exists
         THEN [split EXCEPT !.pc = "raised", !.raised = "AudioExtractionError"]
         ELSE IF FitsInOneChunk(split.audio_size, split.max_chunk_bytes)
         THEN [split EXCEPT !.pc = "returned",
                            !.returned = <<[path |-> AudioPath,
                                            size |-> split.audio_size]>>]
         ELSE [split EXCEPT !.pc = "probe"]
    /\ UNCHANGED <<chunkVars, jobVars, asr>>

\* lines 141-157: ffprobe for the duration, then the chunk parameters
SplitProbe ==
    /\ split.pc = "probe"
    /\ \/ split' = [split EXCEPT !.pc = "loop", !.probes = @ + 1,
                       !.num_chunks = NumChunks(split.audio_size, split.max_chunk_bytes)]
       \/ split' = [split EXCEPT !.pc = "raised", !.probes = @ + 1,
                       !.raised = "AudioExtractionError"]
    /\ UNCHANGED <<chunkVars, jobVars, asr>>

\* lines 167-209: one iteration of the loop.  ffmpeg either writes the chunk
\* file, or fails (error or timeout, possibly leaving a partial file), or
\* exits cleanly without the file; every failure runs the cleanup of the
\* chunks appended so far and raises AudioExtractionError.
SplitChunk ==
    /\ split.pc = "loop"
    /\ Len(split.chunks) < split.num_chunks
    /\ LET i == Len(split.chunks)
       IN  \/ \E size \in ChunkSizes(split.max_chunk_bytes) :
                split' = [split EXCEPT
                            !.commands = @ + 1,
                            !.disk = @ \cup {ChunkPath(i)},
                            !.chunks = Append(@, [path |-> ChunkPath(i), size |-> size])]
           \/ \E partial \in BOOLEAN :
                split' = [split EXCEPT
                            !.commands = @ + 1,
                            !.disk = CleanupChunks(split.disk, split.chunks)
                                       \cup (IF partial THEN {ChunkPath(i)} ELSE {}),
                            !.pc = "raised",
                            !.raised = "AudioExtractionError"]
    /\ UNCHANGED <<chunkVars, jobVars, asr>>

\* line 192: return chunks, once range(num_chunks) is exhausted
SplitReturn ==
    /\ split.pc = "loop"
    /\ Len(split.chunks) = split.num_chunks
    /\ split' = [split EXCEPT !.pc = "returned", !.returned = split.chunks]
    /\ UNCHANGED <<chunkVars, jobVars, asr>>

NextSplit ==
    \/ SplitCheck
    \/ SplitProbe
    \/ SplitChunk
    \/ SplitReturn

\* ========================================================================
\* transcribe_audio_chunks
\* ========================================================================

\* Responses the speech-to-text service may give for one chunk: a non-empty
\* text and the segment list of the verbose_json response.  The last two
\* responses carry segment lists that are not ordered by start, or whose
\* start exceeds the end.
Seg(s, e, t) == [start |-> s, end |-> e, text |-> t]

Responses ==
    { [text |-> <<"a">>,      segments |-> <<Seg(0, 100, "a1")>>],
      [text |-> <<"b", "c">>, segments |-> <<Seg(0, 40, "b1"), Seg(40, 94, "b2")>>],
      [text |-> <<"d">>,      segments |-> << >>],
      [text |-> <<"e">>,      segments |-> <<Seg(0, 100, "e1"), Seg(20, 30, "e2")>>],
      [text |-> <<"f">>,      segments |-> <<Seg(60, 70, "f1"), Seg(50, 20, "f2")>>] }

ChunkIds == 1..MaxChunks

Outstanding == {i \in 1..chunks : task[i] \in {"primary", "fallback"}}

Waiting == {i \in 1..chunks : task[i] = "waiting"}

AlwaysAcquire(value) == TRUE

\* async with semaphore: asyncio.Semaphore.acquire proceeds only while the
\* counter is positive.
CanAcquire(value) == value > 0

\* transcribe_audio's except branch: the fallback model is tried when the
\* failed call used the configured primary model and a fallback is set.
UseFallback(model) ==
    model = transcription_model /\ transcription_fallback_model # ""

\* transcribe_audio, "return transcript_text, model, segments": the model
\* of the call that produced the transcript, the fallback model when the
\* recursive call did.
ModelUsed(frame) ==
    IF frame = "fallback" THEN transcription_fallback_model
    ELSE transcription_model

\* asyncio.gather: the result list is in the order of the awaitables.  Each
\* task returns (chunk_index, transcript, segments): "transcript, _,
\* segments = await ..." drops the model transcribe_audio returned.
Gather(res, n) ==
    [i \in 1..n |-> [chunk_index |-> i - 1,
                     transcript  |-> res[i].text,
                     segments    |-> res[i].segments]]

RECURSIVE InsertByIndex(_, _)
InsertByIndex(sorted, x) ==
    IF sorted = << >> THEN <<x>>
    ELSE IF x.chunk_index < Head(sorted).chunk_index
         THEN <<x>> \o sorted
         ELSE <<Head(sorted)>> \o InsertByIndex(Tail(sorted), x)

RECURSIVE InsertDescending(_, _)
InsertDescending(sorted, x) ==
    IF sorted = << >> THEN <<x>>
    ELSE IF x.chunk_index > Head(sorted).chunk_index
         THEN <<x>> \o sorted
         ELSE <<Head(sorted)>> \o InsertDescending(Tail(sorted), x)

RECURSIVE SortDescending(_)
SortDescending(results) ==
    IF results = << >> THEN << >>
    ELSE InsertDescending(SortDescending(Tail(results)), Head(results))

\* results.sort(key=lambda x: x[0])
RECURSIVE SortByIndex(_)
SortByIndex(results) ==
    IF results = << >> THEN << >>
    ELSE InsertByIndex(SortByIndex(Tail(results)), Head(results))

\* one step of " ".join
JoinPair(a, b) == a \o <<" ">> \o b

\* " ".join(transcript for _, transcript, _ in results)
RECURSIVE JoinTranscripts(_)
JoinTranscripts(results) ==
    IF results = << >> THEN << >>
    ELSE IF Len(results) = 1 THEN results[1].transcript
    ELSE JoinPair(results[1].transcript, JoinTranscripts(Tail(results)))

\* the inner loop: every segment of the chunk shifted by time_offset
ShiftSegments(segments, time_offset) ==
    [j \in 1..Len(segments) |->
        [start |-> segments[j].start + time_offset,
         end   |-> segments[j].end + time_offset,
         text  |-> segments[j].text]]

NextOffsetLocal(segments, combined_segments, time_offset) ==
    IF segments # << >> THEN segments[Len(segments)].end ELSE time_offset

NextOffsetNominal(segments, combined_segments, time_offset) ==
    IF segments # << >> THEN time_offset + 100 ELSE time_offset

\* if segments: time_offset = combined_segments[-1]["end"]
NextOffset(segments, combined_segments, time_offset) ==
    IF segments # << >>
    THEN combined_segments[Len(combined_segments)].end
    ELSE time_offset

\* the outer loop over the sorted results
RECURSIVE CombineSegments(_, _, _)
CombineSegments(results, combined_segments, time_offset) ==
    IF results = << >> THEN combined_segments
    ELSE LET segments == Head(results).segments
             appended == combined_segments \o ShiftSegments(segments, time_offset)
         IN  CombineSegments(Tail(results), appended,
                             NextOffset(segments, appended, time_offset))

\* lines 160-187: gather, sort, join, recombine, return
CombineResults(res, n, model) ==
    LET results == SortByIndex(Gather(res, n))
    IN  [text     |-> JoinTranscripts(results),
         model    |-> model,
         segments |-> CombineSegments(results, << >>, 0)]

\* max_concurrent is settings.max_concurrent_transcriptions, a plain int
\* field without a validator; asyncio.Semaphore accepts every value from 0.
InitChunks ==
    /\ chunks \in 1..MaxChunks
    /\ max_concurrent \in 0..MaxConcurrent
    /\ semaphore = max_concurrent
    /\ task = [i \in ChunkIds |-> IF i <= chunks THEN "waiting" ELSE "none"]
    /\ taskResult = [i \in ChunkIds |-> NoResult]
    /\ completed = << >>
    /\ gatherPc = "gather"
    /\ combined = NoResult

\* A task enters "async with semaphore" and submits transcribe_audio to the
\* executor.  Tasks start in list order and asyncio wakes waiters first-in
\* first-out, so the next task admitted is the lowest waiting index.
Acquire(i) ==
    /\ task[i] = "waiting"
    /\ \A j \in Waiting : i <= j
    /\ CanAcquire(semaphore)
    /\ semaphore' = semaphore - 1
    /\ task' = [task EXCEPT ![i] = "primary"]
    /\ UNCHANGED <<chunks, max_concurrent, taskResult, completed, gatherPc, combined>>
    /\ UNCHANGED <<jobVars, unitVars>>

\* The call returns a transcript: the task returns its tuple and leaves the
\* "async with" block.
CallReturns(i) ==
    /\ task[i] \in {"primary", "fallback"}
    /\ \E resp \in Responses :
          taskResult' = [taskResult EXCEPT
                           ![i] = [text     |-> resp.text,
                                   model    |-> ModelUsed(task[i]),
                                   segments |-> resp.segments]]
    /\ task' = [task EXCEPT ![i] = "ok"]
    /\ semaphore' = semaphore + 1
    /\ completed' = Append(completed, i)
    /\ UNCHANGED <<chunks, max_concurrent, gatherPc, combined>>
    /\ UNCHANGED <<jobVars, unitVars>>

\* The primary call fails (error or empty text) and transcribe_audio calls
\* itself with the fallback model.
PrimaryFails(i) ==
    /\ task[i] = "primary"
    /\ UseFallback(transcription_model)
    /\ task' = [task EXCEPT ![i] = "fallback"]
    /\ UNCHANGED <<chunks, max_concurrent, semaphore, taskResult, completed,
                   gatherPc, combined>>
    /\ UNCHANGED <<jobVars, unitVars>>

\* transcribe_audio raises TranscriptionError: the task re-raises and leaves
\* the "async with" block; gather hands the first exception to its awaiter,
\* which raises TranscriptionError, while the other tasks go on.
CallRaises(i) ==
    /\ \/ task[i] = "fallback"
       \/ task[i] = "primary" /\ ~UseFallback(transcription_model)
    /\ task' = [task EXCEPT ![i] = "err"]
    /\ semaphore' = semaphore + 1
    /\ completed' = Append(completed, i)
    /\ gatherPc' = IF gatherPc = "gather" THEN "raised" ELSE gatherPc
    /\ UNCHANGED <<chunks, max_concurrent, taskResult, combined>>
    /\ UNCHANGED <<jobVars, unitVars>>

\* Every task has returned: gather returns, the results are merged.
GatherReturns ==
    /\ gatherPc = "gather"
    /\ \A i \in 1..chunks : task[i] = "ok"
    /\ combined' = CombineResults(taskResult, chunks, transcription_model)
    /\ gatherPc' = "returned"
    /\ UNCHANGED <<chunks, max_concurrent, semaphore, task, taskResult, completed>>
    /\ UNCHANGED <<jobVars, unitVars>>

NextChunks ==
    \/ \E i \in ChunkIds : Acquire(i)
    \/ \E i \in ChunkIds : CallReturns(i)
    \/ \E i \in ChunkIds : PrimaryFails(i)
    \/ \E i \in ChunkIds : CallRaises(i)
    \/ GatherReturns


\* ========================================================================
\* transcribe_audio
\* ========================================================================

\* values of settings.transcription_model
Models == {transcription_model, transcription_fallback_model}

\* values of settings.transcription_fallback_model ("" : none configured)
FallbackModels == Models \cup {""}

\* lines 79-82, for any configured pair:
\* model == settings.transcription_model and settings.transcription_fallback_model
ShouldFallback(model, primary, fallback) == model = primary /\ fallback # ""

Asr0 == [pc |-> "idle", exists |-> FALSE, primary |-> "", fallback |-> "",
         frames |-> << >>, calls |-> 0, result |-> NoResult]

IdleAsr == asr = Asr0

\* transcribe_audio(audio_path): model defaults to settings.transcription_model
InitAsr ==
    \E primary \in Models, fallback \in FallbackModels, e \in BOOLEAN :
        asr = [Asr0 EXCEPT !.pc = "start", !.exists = e, !.primary = primary,
                           !.fallback = fallback, !.frames = <<primary>>]

\* lines 29-30: the innermost frame checks that the file exists
AsrCheck ==
    /\ asr.pc = "start"
    /\ asr' = IF asr.exists THEN [asr EXCEPT !.pc = "call"]
              ELSE [asr EXCEPT !.pc = "raised"]
    /\ UNCHANGED <<chunkVars, jobVars, split>>

\* lines 42-74: one speech-to-text call with the innermost frame's model.
\* A response with text returns through every enclosing frame (line 84);
\* an exception or an empty text enters the except branch of this frame.
AsrCall ==
    /\ asr.pc = "call"
    /\ \/ \E resp \in Responses :
            asr' = [asr EXCEPT !.calls = @ + 1, !.pc = "returned",
                       !.result = [text |-> resp.text,
                                   model |-> asr.frames[Len(asr.frames)],
                                   segments |-> resp.segments]]
       \/ asr' = [asr EXCEPT !.calls = @ + 1, !.pc = "except"]
    /\ UNCHANGED <<chunkVars, jobVars, split>>

\* lines 76-91: the except branch of the innermost frame.  It calls
\* transcribe_audio again with the fallback model when ShouldFallback;
\* otherwise, or when that call cannot be made for the depth of the stack,
\* TranscriptionError is raised, which every enclosing frame swallows
\* (line 87) before raising its own.
AsrExcept ==
    /\ asr.pc = "except"
    /\ asr' =
         IF /\ ShouldFallback(asr.frames[Len(asr.frames)], asr.primary, asr.fallback)
            /\ Len(asr.frames) < MaxDepth
         THEN [asr EXCEPT !.frames = Append(@, asr.fallback), !.pc = "call"]
         ELSE [asr EXCEPT !.pc = "raised"]
    /\ UNCHANGED <<chunkVars, jobVars, split>>

NextAsr ==
    \/ AsrCheck
    \/ AsrCall
    \/ AsrExcept


\* ========================================================================
\* process_video_task and process_video
\* ========================================================================

\* models.py, class VideoStatus
VideoStatus == {"uploading", "uploaded", "downloading", "extracting_audio",
                "transcribing", "generating_notes", "completed", "failed"}

Runs == 1..MaxRuns

\* "rows" counts the rows of the transcriptions table that carry the job's
\* video_id; the other fields are those of the row last written.
NoRow == [exists |-> FALSE, transcript_text |-> "null",
          error_message |-> "null", notes |-> "null", rows |-> 0]

\* Transcription(video_id, transcript_text, model_used, ..., notes=notes_dict)
ResultRow(notes) == [exists |-> TRUE, transcript_text |-> "text",
                     error_message |-> "null", notes |-> notes, rows |-> 1]

\* Transcription(video_id, error_message=...)
ErrorRow(msg) == [exists |-> TRUE, transcript_text |-> "null",
                  error_message |-> msg, notes |-> "null", rows |-> 1]

NoUniqueConstraint(table) == FALSE

\* models.py, Transcription.video_id is unique: the commit of an INSERT
\* raises IntegrityError when the table holds a row of the job already.
UniqueViolation(table) == table.rows > 0

NotInserted(table, row) == table

\* db.add(row); await db.commit(), when the constraint lets it through
Inserted(table, row) == [row EXCEPT !.rows = table.rows + 1]

\* "files" are the temporary files the run has caused to exist; "session"
\* tells whether the run is inside an "async with AsyncSessionLocal()"
\* block between two of its steps.
Local0 == [temp_video_path |-> FALSE, audio_path |-> FALSE, big |-> FALSE,
           chunks |-> FALSE, probe |-> "none", notes |-> "null",
           tag_names |-> FALSE, existing |-> FALSE, files |-> {},
           session |-> FALSE]

Hist0 == [hadRow |-> FALSE, stages |-> << >>,
          rowWrites |-> 0, calls |-> {}, failure |-> "none",
          result |-> "none"]

Active(r) == pc[r] \notin {"idle", "done", "killed"}

\* runs are started in index order
NextRun(r) == pc[r] = "idle" /\ \A q \in Runs : q < r => pc[q] # "idle"

NeverProcessed(row) == FALSE

\* worker.py: the idempotency check, "if existing_transcription"
AlreadyProcessed(row) == row.exists

\* a run starts: note whether the job has a transcription row already
Begin(r) == [hist EXCEPT ![r] = [Hist0 EXCEPT !.hadRow = transcription.exists]]

Wrote(h, stage) == [h EXCEPT !.stages = Append(@, stage)]

Called(h, c) == [h EXCEPT !.calls = @ \cup {c}]

InitJob ==
    /\ status \in {"uploading", "uploaded"}
    /\ transcription = NoRow
    /\ duration_seconds = "null"
    /\ r2_key \in BOOLEAN
    /\ kind = [r \in Runs |-> "none"]
    /\ pc = [r \in Runs |-> "idle"]
    /\ local = [r \in Runs |-> Local0]
    /\ hist = [r \in Runs |-> Hist0]

\* ---------------- process_video_task ----------------

\* The dispatcher delivers the task.
Deliver(r) ==
    /\ NextRun(r)
    /\ kind' = [kind EXCEPT ![r] = "task"]
    /\ pc' = [pc EXCEPT ![r] = "t_check"]
    /\ hist' = Begin(r)
    /\ UNCHANGED <<status, transcription, duration_seconds, r2_key, local>>
    /\ UNCHANGED <<chunkVars, unitVars>>

\* Lines 83-109: open the session "db", which stays open until the function
\* is left; load the video, look for a transcription; return
\* "already_processed" when there is one.
TaskCheck(r) ==
    /\ pc[r] = "t_check"
    /\ IF AlreadyProcessed(transcription)
       THEN /\ pc' = [pc EXCEPT ![r] = "finally"]
            /\ hist' = [hist EXCEPT ![r].result = "already_processed"]
       ELSE /\ pc' = [pc EXCEPT ![r] = "t_set"]
            /\ hist' = hist
    /\ local' = [local EXCEPT ![r].session = TRUE]
    /\ UNCHANGED <<status, transcription, duration_seconds, r2_key, kind>>
    /\ UNCHANGED <<chunkVars, unitVars>>

\* Line 112: "video.status = VideoStatus.processing".  The enumeration has
\* no member of that name, so evaluating the right-hand side raises
\* AttributeError before anything is assigned; control passes to the
\* "except Exception" handler at line 209.
TaskSetProcessing(r) ==
    /\ pc[r] = "t_set"
    /\ "processing" \notin VideoStatus
    /\ pc' = [pc EXCEPT ![r] = "t_handler"]
    /\ UNCHANGED <<status, transcription, duration_seconds, r2_key, kind,
                   local, hist>>
    /\ UNCHANGED <<chunkVars, unitVars>>

\* Lines 214-226: the handler loads the video, sets failed on it and looks
\* for a transcription again.
TaskHandlerSelect(r) ==
    /\ pc[r] = "t_handler"
    /\ local' = [local EXCEPT ![r].existing = transcription.exists]
    /\ pc' = [pc EXCEPT ![r] = "t_commit"]
    /\ UNCHANGED <<status, transcription, duration_seconds, r2_key, kind, hist>>
    /\ UNCHANGED <<chunkVars, unitVars>>

HandlerSwallows == "success"

\* line 244: raise HTTPException(status_code=500, ...)
HandlerOutcome == "error"

\* Lines 228-244: update or insert the error row and commit; a failing
\* commit (duplicate video_id) is logged and dropped; HTTP 500 is raised.
TaskHandlerCommit(r) ==
    /\ pc[r] = "t_commit"
    /\ LET dup == ~local[r].existing /\ UniqueViolation(transcription)
           row == IF local[r].existing
                  THEN [transcription EXCEPT !.error_message = "worker_error"]
                  ELSE Inserted(transcription, ErrorRow("worker_error"))
       IN  /\ status' = IF dup THEN status ELSE "failed"
           /\ transcription' = IF dup THEN transcription ELSE row
           /\ hist' = [hist EXCEPT
                         ![r] = [(IF dup THEN @ ELSE Wrote(@, "failed")) EXCEPT
                                   !.rowWrites = IF dup THEN @ ELSE @ + 1,
                                   !.result = HandlerOutcome]]
    /\ pc' = [pc EXCEPT ![r] = "finally"]
    /\ local' = local
    /\ UNCHANGED <<duration_seconds, r2_key, kind>>
    /\ UNCHANGED <<chunkVars, unitVars>>

\* ---------------- process_video ----------------

jobRest == <<duration_seconds, r2_key, kind>>

Goto(r, label) == pc' = [pc EXCEPT ![r] = label]

PersistUploaded(r, stage) ==
    /\ status' = "uploaded"
    /\ hist' = [hist EXCEPT ![r] = Wrote(@, "uploaded")]

\* "video.status = <stage>; await db.commit()" in a session of its own
Persist(r, stage) ==
    /\ status' = stage
    /\ hist' = [hist EXCEPT ![r] = Wrote(@, stage)]

UnexpectedHandler == "s8"

\* "except (AudioExtractionError, TranscriptionError)": session 7
FatalHandler == "s7"

ContinueAfter(r, call) ==
    /\ hist' = [hist EXCEPT ![r] = Called(@, call)]
    /\ Goto(r, "s5")

\* an external call of run r raises AudioExtractionError or
\* TranscriptionError
Fatal(r, call) ==
    /\ hist' = [hist EXCEPT ![r] = [Called(@, call) EXCEPT !.failure = call]]
    /\ Goto(r, FatalHandler)

\* process_video is entered; session 1 reads r2_key and file_path.
Invoke(r) ==
    /\ NextRun(r)
    /\ kind' = [kind EXCEPT ![r] = "pv"]
    /\ pc' = [pc EXCEPT ![r] = IF r2_key THEN "s2" ELSE "s3"]
    /\ hist' = Begin(r)
    /\ UNCHANGED <<status, transcription, duration_seconds, r2_key, local>>
    /\ UNCHANGED <<chunkVars, unitVars>>

\* Session 2 (only when r2_key is set): status = downloading.
PersistDownloading(r) ==
    /\ pc[r] = "s2"
    /\ Persist(r, "downloading")
    /\ Goto(r, "download")
    /\ UNCHANGED <<transcription, local, jobRest>>
    /\ UNCHANGED <<chunkVars, unitVars>>

\* download_video(r2_key): a temp file, or R2Error re-raised as
\* AudioExtractionError.  download_video creates its temp file
\* (NamedTemporaryFile(delete=False)) after get_r2_client() and before
\* client.download_file, so a failure comes with or without the file, and
\* temp_video_path is assigned only on success.
Download(r) ==
    /\ pc[r] = "download"
    /\ \/ /\ local' = [local EXCEPT ![r].temp_video_path = TRUE,
                                    ![r].files = @ \cup {"video"}]
          /\ hist' = [hist EXCEPT ![r] = Called(@, "download")]
          /\ Goto(r, "s3")
       \/ /\ Fatal(r, "download")
          /\ \E created \in BOOLEAN :
                local' = [local EXCEPT ![r].files =
                            IF created THEN @ \cup {"video"} ELSE @]
    /\ UNCHANGED <<status, transcription, jobRest>>
    /\ UNCHANGED <<chunkVars, unitVars>>

\* Session 3, first half: the session is open, status is set on the loaded
\* video and get_video_duration runs.  The probe returns a duration, raises
\* AudioExtractionError (caught, logged), or fails with another error
\* (ffprobe missing), which leaves the session without a commit.
Probe(r) ==
    /\ pc[r] = "s3"
    /\ \/ /\ \E p \in {"ok", "failed"} :
                local' = [local EXCEPT ![r].probe = p, ![r].session = TRUE]
          /\ hist' = [hist EXCEPT ![r] = Called(@, "probe")]
          /\ Goto(r, "s3c")
       \/ /\ local' = local
          /\ hist' = [hist EXCEPT ![r] = [Called(@, "probe") EXCEPT !.failure = "probe"]]
          /\ Goto(r, "s8")
    /\ UNCHANGED <<status, transcription, jobRest>>
    /\ UNCHANGED <<chunkVars, unitVars>>

AbortOnProbeFailure(r) ==
    /\ pc[r] = "s3c"
    /\ IF local[r].probe = "failed"
       THEN /\ Goto(r, "s7")
            /\ UNCHANGED <<status, hist, duration_seconds>>
       ELSE /\ Persist(r, "extracting_audio")
            /\ duration_seconds' = "set"
            /\ Goto(r, "extract")
    /\ UNCHANGED <<transcription, local, r2_key, kind>>
    /\ UNCHANGED <<chunkVars, unitVars>>

\* Session 3, commit: status = extracting_audio, and the duration if the
\* probe gave one; the session is closed.
PersistExtracting(r) ==
    /\ pc[r] = "s3c"
    /\ Persist(r, "extracting_audio")
    /\ duration_seconds' = IF local[r].probe = "ok" THEN "set" ELSE duration_seconds
    /\ local' = [local EXCEPT ![r].session = FALSE]
    /\ Goto(r, "extract")
    /\ UNCHANGED <<transcription, r2_key, kind>>
    /\ UNCHANGED <<chunkVars, unitVars>>

\* extract_audio(video_path): an audio file whose size is at most, or above,
\* the chunk threshold; or AudioExtractionError.
ExtractAudio(r) ==
    /\ pc[r] = "extract"
    /\ \/ /\ \E b \in BOOLEAN :
                local' = [local EXCEPT ![r].audio_path = TRUE, ![r].big = b,
                                       ![r].files = @ \cup {"audio"}]
          /\ hist' = [hist EXCEPT ![r] = Called(@, "extract")]
          /\ Goto(r, "s4")
       \/ /\ Fatal(r, "extract")
          /\ local' = local
    /\ UNCHANGED <<status, transcription, jobRest>>
    /\ UNCHANGED <<chunkVars, unitVars>>

SkipTranscribing(r) ==
    /\ pc[r] = "s4"
    /\ Goto(r, IF local[r].big THEN "split" ELSE "transcribe")
    /\ UNCHANGED <<status, transcription, local, hist, jobRest>>
    /\ UNCHANGED <<chunkVars, unitVars>>

\* Session 4: status = transcribing.
PersistTranscribing(r) ==
    /\ pc[r] = "s4"
    /\ Persist(r, "transcribing")
    /\ Goto(r, IF local[r].big THEN "split" ELSE "transcribe")
    /\ UNCHANGED <<transcription, local, jobRest>>
    /\ UNCHANGED <<chunkVars, unitVars>>

\* split_audio_into_chunks(audio_path): the chunk list, or
\* AudioExtractionError with "chunks" still None.
Split(r) ==
    /\ pc[r] = "split"
    /\ \/ /\ local' = [local EXCEPT ![r].chunks = TRUE,
                                    ![r].files = @ \cup {"chunks"}]
          /\ hist' = [hist EXCEPT ![r] = Called(@, "split")]
          /\ Goto(r, "transcribe")
       \/ /\ Fatal(r, "split")
          /\ local' = local
    /\ UNCHANGED <<status, transcription, jobRest>>
    /\ UNCHANGED <<chunkVars, unitVars>>

\* transcribe_audio_chunks(chunks) or transcribe_audio(audio_path): the
\* transcript, or TranscriptionError.
Transcribe(r) ==
    /\ pc[r] = "transcribe"
    /\ \/ /\ hist' = [hist EXCEPT ![r] = Called(@, "transcribe")]
          /\ Goto(r, "s5")
       \/ Fatal(r, "transcribe")
    /\ UNCHANGED <<status, transcription, local, jobRest>>
    /\ UNCHANGED <<chunkVars, unitVars>>

SkipGeneratingNotes(r) ==
    /\ pc[r] = "s5"
    /\ Goto(r, "notes")
    /\ UNCHANGED <<status, transcription, local, hist, jobRest>>
    /\ UNCHANGED <<chunkVars, unitVars>>

\* Session 5: status = generating_notes.
PersistGeneratingNotes(r) ==
    /\ pc[r] = "s5"
    /\ Persist(r, "generating_notes")
    /\ Goto(r, "notes")
    /\ UNCHANGED <<transcription, local, jobRest>>
    /\ UNCHANGED <<chunkVars, unitVars>>

NotesFailureIsFatal == "s7"

\* where process_video continues after "except NoteGenerationError"
AfterNotesFailure == "s6"

\* generate_notes(...): notes with or without tags, or NoteGenerationError,
\* which is logged and leaves notes_dict = None.
GenerateNotes(r) ==
    /\ pc[r] = "notes"
    /\ \/ /\ \E t \in BOOLEAN :
                local' = [local EXCEPT ![r].notes = "notes", ![r].tag_names = t]
          /\ hist' = [hist EXCEPT ![r] = Called(@, "notes")]
          /\ Goto(r, "s6")
       \/ /\ local' = local
          /\ hist' = [hist EXCEPT ![r] = [Called(@, "notes") EXCEPT !.failure = "notes"]]
          /\ Goto(r, AfterNotesFailure)
    /\ UNCHANGED <<status, transcription, jobRest>>
    /\ UNCHANGED <<chunkVars, unitVars>>

\* Session 6: insert the transcription row and set status = completed in
\* one commit.  transcriptions.video_id is unique: with a row already
\* there the commit raises IntegrityError and nothing is written.
SaveTranscription(r) ==
    /\ pc[r] = "s6"
    /\ IF UniqueViolation(transcription)
       THEN /\ hist' = [hist EXCEPT ![r].failure = "save"]
            /\ Goto(r, "s8")
            /\ UNCHANGED <<status, transcription>>
       ELSE /\ transcription' = Inserted(transcription, ResultRow(local[r].notes))
            /\ status' = "completed"
            /\ hist' = [hist EXCEPT ![r] = [Wrote(@, "completed") EXCEPT
                                              !.rowWrites = @ + 1,
                                              !.result = IF local[r].tag_names
                                                         THEN @ ELSE "success"]]
            /\ Goto(r, IF local[r].tag_names THEN "tags" ELSE "finally")
    /\ UNCHANGED <<local, jobRest>>
    /\ UNCHANGED <<chunkVars, unitVars>>

\* _store_tags_for_video and its commit, after the final commit: done, or
\* an error (tags.name is unique across jobs; any statement may fail).
StoreTags(r) ==
    /\ pc[r] = "tags"
    /\ \/ /\ Goto(r, "finally")
          /\ hist' = [hist EXCEPT ![r].result = "success"]
       \/ /\ Goto(r, "s8")
          /\ hist' = [hist EXCEPT ![r].failure = "tags"]
    /\ UNCHANGED <<status, transcription, local, jobRest>>
    /\ UNCHANGED <<chunkVars, unitVars>>

\* Session 7, "except (AudioExtractionError, TranscriptionError)": insert
\* an error row and set status = failed in one commit.  With a row already
\* there the commit raises IntegrityError out of the handler.
RecordError(r) ==
    /\ pc[r] = "s7"
    /\ IF UniqueViolation(transcription)
       THEN /\ hist' = [hist EXCEPT ![r].result = "raised"]
            /\ UNCHANGED <<status, transcription>>
       ELSE /\ transcription' = Inserted(transcription, ErrorRow("pv_error"))
            /\ status' = "failed"
            /\ hist' = [hist EXCEPT ![r] = [Wrote(@, "failed") EXCEPT
                                              !.rowWrites = @ + 1,
                                              !.result = "recorded_error"]]
    /\ Goto(r, "finally")
    /\ UNCHANGED <<local, jobRest>>
    /\ UNCHANGED <<chunkVars, unitVars>>

\* Session 8, "except Exception": status = failed.
RecordUnexpected(r) ==
    /\ pc[r] = "s8"
    /\ status' = "failed"
    /\ hist' = [hist EXCEPT ![r] = [Wrote(@, "failed") EXCEPT !.result = "unexpected"]]
    /\ Goto(r, "finally")
    /\ UNCHANGED <<transcription, local, jobRest>>
    /\ UNCHANGED <<chunkVars, unitVars>>

\* lines 283-289: "if chunks: cleanup_audio_chunks(chunks)", "if audio_path:
\* cleanup_audio_file(audio_path)", "if temp_video_path:
\* cleanup_temp_file(temp_video_path)"
Released(l) ==
    (IF l.chunks THEN {"chunks"} ELSE {})
    \cup (IF l.audio_path THEN {"audio"} ELSE {})
    \cup (IF l.temp_video_path THEN {"video"} ELSE {})

\* finally (both functions): the temporary files of the run are removed
\* (chunk files, audio file, downloaded video); the function returns, or
\* lets the pending exception through.
Finally(r) ==
    /\ pc[r] = "finally"
    /\ local' = [local EXCEPT ![r] = [Local0 EXCEPT !.files =
                                       local[r].files \ Released(local[r])]]
    /\ hist' = [hist EXCEPT ![r] = Hist0]
    /\ Goto(r, "done")
    /\ UNCHANGED <<status, transcription, jobRest>>
    /\ UNCHANGED <<chunkVars, unitVars>>

\* The process executing run r is killed.
Kill(r) ==
    /\ Active(r)
    /\ pc' = [pc EXCEPT ![r] = "killed"]
    /\ local' = [local EXCEPT ![r] = Local0]
    /\ hist' = [hist EXCEPT ![r] = Hist0]
    /\ UNCHANGED <<status, transcription, jobRest>>
    /\ UNCHANGED <<chunkVars, unitVars>>

Next ==
    \/ \E r \in Runs : Deliver(r)
    \/ \E r \in Runs : TaskCheck(r)
    \/ \E r \in Runs : TaskSetProcessing(r)
    \/ \E r \in Runs : TaskHandlerSelect(r)
    \/ \E r \in Runs : TaskHandlerCommit(r)
    \/ \E r \in Runs : Invoke(r)
    \/ \E r \in Runs : PersistDownloading(r)
    \/ \E r \in Runs : Download(r)
    \/ \E r \in Runs : Probe(r)
    \/ \E r \in Runs : PersistExtracting(r)
    \/ \E r \in Runs : ExtractAudio(r)
    \/ \E r \in Runs : PersistTranscribing(r)
    \/ \E r \in Runs : Split(r)
    \/ \E r \in Runs : Transcribe(r)
    \/ \E r \in Runs : PersistGeneratingNotes(r)
    \/ \E r \in Runs : GenerateNotes(r)
    \/ \E r \in Runs : SaveTranscription(r)
    \/ \E r \in Runs : StoreTags(r)
    \/ \E r \in Runs : RecordError(r)
    \/ \E r \in Runs : RecordUnexpected(r)
    \/ \E r \in Runs : Finally(r)
    \/ \E r \in Runs : Kill(r)

\* ------------------------------------------------------------------------
\* Specifications
\* ------------------------------------------------------------------------
IdleChunks ==
    /\ chunks = 0
    /\ max_concurrent = 1
    /\ semaphore = 1
    /\ task = [i \in ChunkIds |-> "none"]
    /\ taskResult = [i \in ChunkIds |-> NoResult]
    /\ completed = << >>
    /\ gatherPc = "idle"
    /\ combined = NoResult

IdleJob ==
    /\ status = "uploaded"
    /\ transcription = NoRow
    /\ duration_seconds = "null"
    /\ r2_key = TRUE
    /\ kind = [r \in Runs |-> "none"]
    /\ pc = [r \in Runs |-> "idle"]
    /\ local = [r \in Runs |-> Local0]
    /\ hist = [r \in Runs |-> Hist0]

Init == InitJob /\ IdleChunks /\ IdleSplit /\ IdleAsr

Spec == Init /\ [][Next]_vars

InitC == InitChunks /\ IdleJob /\ IdleSplit /\ IdleAsr

SpecChunks == InitC /\ [][NextChunks]_vars

\* The event loop runs every task that is ready, and each call submitted to
\* the executor terminates: a step of transcribe_audio_chunks that is
\* possible is eventually taken.
SpecChunksFair == InitC /\ [][NextChunks]_vars /\ WF_vars(NextChunks)

\* One run of process_video, nothing else touching the job.  The job has no
\* transcription row; its status is whatever the submission path, a killed
\* run or a run that failed without a row has left.
InitRun ==
    /\ status \in VideoStatus \ {"completed"}
    /\ transcription = NoRow
    /\ duration_seconds \in {"null", "set"}
    /\ r2_key \in BOOLEAN
    /\ kind = [r \in Runs |-> "none"]
    /\ pc = [r \in Runs |-> "idle"]
    /\ local = [r \in Runs |-> Local0]
    /\ hist = [r \in Runs |-> Hist0]
    /\ IdleChunks
    /\ IdleSplit
    /\ IdleAsr

NextRun1 ==
    \/ Invoke(1)
    \/ PersistDownloading(1)
    \/ Download(1)
    \/ Probe(1)
    \/ PersistExtracting(1)
    \/ ExtractAudio(1)
    \/ PersistTranscribing(1)
    \/ Split(1)
    \/ Transcribe(1)
    \/ PersistGeneratingNotes(1)
    \/ GenerateNotes(1)
    \/ SaveTranscription(1)
    \/ StoreTags(1)
    \/ RecordError(1)
    \/ RecordUnexpected(1)
    \/ Finally(1)

SpecRun == InitRun /\ [][NextRun1]_vars

\* Deliveries of process_video_task only.  The job is in a state earlier
\* runs can have left: no row and any stage short of completed; a
\* transcript row with completed, or with failed after the tag update
\* raised; an error-only row with failed.
JobStates ==
    [status : VideoStatus \ {"completed"}, transcription : {NoRow}]
    \cup [status : {"completed", "failed"},
          transcription : {ResultRow("notes"), ResultRow("null")}]
    \cup [status : {"failed"},
          transcription : {ErrorRow("pv_error"), ErrorRow("worker_error")}]

InitTask ==
    /\ \E j \in JobStates : status = j.status /\ transcription = j.transcription
    /\ duration_seconds \in {"null", "set"}
    /\ r2_key \in BOOLEAN
    /\ kind = [r \in Runs |-> "none"]
    /\ pc = [r \in Runs |-> "idle"]
    /\ local = [r \in Runs |-> Local0]
    /\ hist = [r \in Runs |-> Hist0]
    /\ IdleChunks
    /\ IdleSplit
    /\ IdleAsr

NextTask ==
    \/ \E r \in Runs : Deliver(r)
    \/ \E r \in Runs : TaskCheck(r)
    \/ \E r \in Runs : TaskSetProcessing(r)
    \/ \E r \in Runs : TaskHandlerSelect(r)
    \/ \E r \in Runs : TaskHandlerCommit(r)
    \/ \E r \in Runs : Finally(r)
    \/ \E r \in Runs : Kill(r)

SpecTask == InitTask /\ [][NextTask]_vars

InitS == InitSplit /\ IdleChunks /\ IdleJob /\ IdleAsr

SpecSplit == InitS /\ [][NextSplit]_vars

InitA == InitAsr /\ IdleChunks /\ IdleJob /\ IdleSplit

\* ---- one run of process_video with transcribe_audio_chunks inside ----

\* line 153, else branch: transcribe_audio(audio_path) on the whole file
TranscribeSingle(r) == ~local[r].chunks /\ Transcribe(r)

\* lines 164-166: await transcribe_audio_chunks(chunks, max_concurrent=...)
\* is entered with the chunk list of split_audio_into_chunks (two chunks or
\* more) and creates its semaphore and its tasks.
TranscribeChunksStart(r) ==
    /\ pc[r] = "transcribe" /\ local[r].chunks
    /\ gatherPc = "idle"
    /\ \E n \in 2..MaxChunks, k \in 0..MaxConcurrent :
          /\ chunks' = n
          /\ max_concurrent' = k
          /\ semaphore' = k
          /\ task' = [i \in ChunkIds |-> IF i <= n THEN "waiting" ELSE "none"]
    /\ taskResult' = [i \in ChunkIds |-> NoResult]
    /\ completed' = << >>
    /\ gatherPc' = "gather"
    /\ combined' = NoResult
    /\ hist' = [hist EXCEPT ![r] = Called(@, "transcribe")]
    /\ Goto(r, "gather")
    /\ UNCHANGED <<status, transcription, local, jobRest, unitVars>>

\* transcribe_audio_chunks returns (text, model, segments); its tasks and
\* locals are gone.
TranscribeChunksReturn(r) ==
    /\ pc[r] = "gather" /\ gatherPc = "returned"
    /\ Goto(r, "s5")
    /\ chunks' = 0
    /\ max_concurrent' = 1
    /\ semaphore' = 1
    /\ task' = [i \in ChunkIds |-> "none"]
    /\ taskResult' = [i \in ChunkIds |-> NoResult]
    /\ completed' = << >>
    /\ gatherPc' = "idle"
    /\ combined' = NoResult
    /\ UNCHANGED <<status, transcription, local, hist, jobRest, unitVars>>

\* transcribe_audio_chunks raises TranscriptionError (lines 189-191) as soon
\* as gather hands over the first exception; tasks not yet finished go on.
TranscribeChunksRaise(r) ==
    /\ pc[r] = "gather" /\ gatherPc = "raised"
    /\ Fatal(r, "transcribe")
    /\ UNCHANGED <<status, transcription, local, jobRest>>
    /\ UNCHANGED <<chunkVars, unitVars>>

InitPipe ==
    /\ status = "uploaded"
    /\ transcription = NoRow
    /\ duration_seconds = "null"
    /\ r2_key \in BOOLEAN
    /\ kind = [r \in Runs |-> "none"]
    /\ pc = [r \in Runs |-> "idle"]
    /\ local = [r \in Runs |-> Local0]
    /\ hist = [r \in Runs |-> Hist0]
    /\ IdleChunks
    /\ IdleSplit
    /\ IdleAsr

NextPipe ==
    \/ Invoke(1)
    \/ PersistDownloading(1)
    \/ Download(1)
    \/ Probe(1)
    \/ PersistExtracting(1)
    \/ ExtractAudio(1)
    \/ PersistTranscribing(1)
    \/ Split(1)
    \/ TranscribeSingle(1)
    \/ TranscribeChunksStart(1)
    \/ \E i \in ChunkIds : Acquire(i)
    \/ \E i \in ChunkIds : CallReturns(i)
    \/ \E i \in ChunkIds : PrimaryFails(i)
    \/ \E i \in ChunkIds : CallRaises(i)
    \/ GatherReturns
    \/ TranscribeChunksReturn(1)
    \/ TranscribeChunksRaise(1)
    \/ PersistGeneratingNotes(1)
    \/ GenerateNotes(1)
    \/ SaveTranscription(1)
    \/ StoreTags(1)
    \/ RecordError(1)
    \/ RecordUnexpected(1)
    \/ Finally(1)

SpecPipe == InitPipe /\ [][NextPipe]_vars

SpecAsr == InitA /\ [][NextAsr]_vars

\* ---- one pipeline run, of either function, on a job in any state ----
NextOne ==
    \/ Deliver(1)
    \/ TaskCheck(1)
    \/ TaskSetProcessing(1)
    \/ TaskHandlerSelect(1)
    \/ TaskHandlerCommit(1)
    \/ Invoke(1)
    \/ PersistDownloading(1)
    \/ Download(1)
    \/ Probe(1)
    \/ PersistExtracting(1)
    \/ ExtractAudio(1)
    \/ PersistTranscribing(1)
    \/ Split(1)
    \/ Transcribe(1)
    \/ PersistGeneratingNotes(1)
    \/ GenerateNotes(1)
    \/ SaveTranscription(1)
    \/ StoreTags(1)
    \/ RecordError(1)
    \/ RecordUnexpected(1)
    \/ Finally(1)

SpecOne == InitTask /\ [][NextOne]_vars


\* ========================================================================
\* Claims
\* ========================================================================

PvAtFinally(r) == kind[r] = "pv" /\ pc[r] = "finally"

\* C1: a delivery of process_video_task for a job that already has a
\* transcription row returns "already_processed" having made no write to
\* the job's status or row and no collaborator call; and no delivery has
\* written anything when it makes the existence check.
C1_IdempotentRetry ==
    \A r \in Runs :
        /\ kind[r] = "task" /\ hist[r].hadRow =>
              /\ pc[r] \in {"t_check", "finally"}
              /\ hist[r].stages = << >>
              /\ hist[r].rowWrites = 0
              /\ hist[r].calls = {}
              /\ pc[r] = "finally" => hist[r].result = "already_processed"
        /\ kind[r] = "task" /\ pc[r] = "t_check" =>
              hist[r].stages = << >> /\ hist[r].rowWrites = 0

C1_Witness ==
    \E r \in Runs :
        /\ kind[r] = "task" /\ hist[r].hadRow /\ pc[r] = "finally"
        /\ hist[r].result = "already_processed"
        /\ transcription.transcript_text = "text"
        /\ status = "completed"

\* C2: at every moment at most max_concurrent single-chunk transcription
\* calls are outstanding, a call on the fallback model counting as part of
\* its chunk's call.
C2_BoundedConcurrency == Cardinality(Outstanding) <= max_concurrent

C2_Witness ==
    /\ Cardinality(Outstanding) = max_concurrent
    /\ Waiting # {}
    /\ max_concurrent > 1
    /\ \E i \in Outstanding : task[i] = "fallback"

RECURSIVE ExpectedText(_)
ExpectedText(i) ==
    IF i = 1 THEN taskResult[1].text
    ELSE ExpectedText(i - 1) \o <<" ">> \o taskResult[i].text

RECURSIVE ExpectedSegmentTexts(_)
ExpectedSegmentTexts(i) ==
    IF i = 0 THEN << >>
    ELSE ExpectedSegmentTexts(i - 1) \o
         [j \in 1..Len(taskResult[i].segments) |-> taskResult[i].segments[j].text]

\* C3: whatever the order in which the calls complete, the returned text is
\* the chunk texts joined by one space in chunk-index order, and the merged
\* segments are the chunks' segments in chunk-index order.
C3_OrderIndependent ==
    gatherPc = "returned" =>
        /\ combined.text = ExpectedText(chunks)
        /\ [j \in 1..Len(combined.segments) |-> combined.segments[j].text]
              = ExpectedSegmentTexts(chunks)

C3_Witness ==
    /\ gatherPc = "returned"
    /\ chunks >= 3
    /\ \E a, b \in 1..Len(completed) : a < b /\ completed[a] > completed[b]
    /\ \A i \in 1..chunks : taskResult[i].segments # << >>

WellFormed(segments) ==
    /\ \A j \in 1..Len(segments) :
          0 <= segments[j].start /\ segments[j].start <= segments[j].end
    /\ \A j, k \in 1..Len(segments) :
          j < k => segments[j].start <= segments[k].start

\* C4: if every chunk's segment list is ordered by start with
\* 0 <= start <= end, the merged sequence has non-decreasing starts over
\* its whole length and no merged segment starts after its end.
C4_MergedNonDecreasing ==
    (gatherPc = "returned" /\ \A i \in 1..chunks : WellFormed(taskResult[i].segments))
    => WellFormed(combined.segments)

C4_Witness ==
    /\ gatherPc = "returned"
    /\ chunks = 3
    /\ \A i \in 1..chunks : WellFormed(taskResult[i].segments)
    /\ Len(taskResult[1].segments) = 2
    /\ taskResult[2].segments = << >>
    /\ taskResult[3].segments # << >>

RECURSIVE OffsetBefore(_)
OffsetBefore(i) ==
    IF i = 1 THEN 0
    ELSE LET prev == taskResult[i - 1].segments
         IN  IF prev = << >> THEN OffsetBefore(i - 1)
             ELSE OffsetBefore(i - 1) + prev[Len(prev)].end

RECURSIVE SegmentsBefore(_)
SegmentsBefore(i) ==
    IF i = 1 THEN 0
    ELSE SegmentsBefore(i - 1) + Len(taskResult[i - 1].segments)

\* C5: every segment of chunk i is shifted, start and end, by the
\* offset-corrected end of the last segment appended from the chunks before
\* i (0 for the first chunk).
C5_CumulativeOffset ==
    gatherPc = "returned" =>
        \A i \in 1..chunks :
            \A j \in 1..Len(taskResult[i].segments) :
                LET merged == combined.segments[SegmentsBefore(i) + j]
                    own    == taskResult[i].segments[j]
                IN  /\ merged.start = own.start + OffsetBefore(i)
                    /\ merged.end = own.end + OffsetBefore(i)

\* the example of the specification: last segments ending at 10.0 and 9.4
\* shift the third chunk by 19.4
C5_Witness ==
    /\ gatherPc = "returned"
    /\ chunks = 3
    /\ taskResult[1].segments # << >> /\ taskResult[2].segments # << >>
    /\ taskResult[3].segments # << >>
    /\ taskResult[1].segments[Len(taskResult[1].segments)].end = 100
    /\ taskResult[2].segments[Len(taskResult[2].segments)].end = 94
    /\ combined.segments[SegmentsBefore(3) + 1].start
          = taskResult[3].segments[1].start + 194

\* C6: a run of process_video whose note generation failed after the
\* transcription succeeded ends with a transcription row holding the
\* transcript and no notes, and with status completed.
C6_NotesFailureNonFatal ==
    \A r \in Runs :
        PvAtFinally(r) /\ hist[r].failure = "notes" =>
            /\ status = "completed"
            /\ transcription.exists
            /\ transcription.transcript_text # "null"
            /\ transcription.notes = "null"

C6_Witness ==
    \E r \in Runs :
        /\ PvAtFinally(r) /\ hist[r].failure = "notes"
        /\ "transcribe" \in hist[r].calls
        /\ status = "completed"

\* C7: a run of process_video in which the download, the audio extraction,
\* the chunk split or the transcription failed ends with status failed and
\* a transcription row that carries an error message, no transcript and no
\* notes.
C7_FatalFailureRecorded ==
    \A r \in Runs :
        PvAtFinally(r)
        /\ hist[r].failure \in {"download", "extract", "split", "transcribe"} =>
            /\ status = "failed"
            /\ transcription.exists
            /\ transcription.error_message # "null"
            /\ transcription.transcript_text = "null"
            /\ transcription.notes = "null"

C7_Witness ==
    \E r \in Runs :
        /\ PvAtFinally(r) /\ hist[r].failure = "split"
        /\ status = "failed" /\ transcription.error_message = "pv_error"

\* C8: once the job's status is completed, no step of any run changes it.
C8_CompletedIsFinal == [][status = "completed" => status' = "completed"]_vars

StageOrder == <<"uploading", "uploaded", "downloading", "extracting_audio",
                "transcribing", "generating_notes", "completed">>

Rank(stage) == CHOOSE i \in 1..Len(StageOrder) : StageOrder[i] = stage

\* C9: every change of the job's status is a move to failed or a move to a
\* later stage of the order.  (A move out of failed, which has no place in
\* the order, is not counted against the claim.)
C9_NeverBackward ==
    [][status' # status =>
          \/ status' = "failed"
          \/ status = "failed"
          \/ Rank(status') > Rank(status)]_vars

CeilDiv(a, b) == (a + b - 1) \div b

\* C11: for every audio size greater than max_chunk_bytes, a call of
\* split_audio_into_chunks that returns has produced exactly
\* ceil(size / max_chunk_bytes) chunks, numbered contiguously, also when the
\* size is an exact multiple of max_chunk_bytes.
C11_CeilChunkCount ==
    (split.pc = "returned" /\ split.audio_size > split.max_chunk_bytes) =>
        /\ Len(split.returned) = CeilDiv(split.audio_size, split.max_chunk_bytes)
        /\ \A j \in 1..Len(split.returned) : split.returned[j].path = ChunkPath(j - 1)

\* C12: for every audio size at most max_chunk_bytes the call runs no probe
\* and no extraction command, and it returns exactly one chunk, whose path
\* and size are those of the original file.
C12_SmallFileSingleChunk ==
    (split.exists /\ split.pc # "start"
     /\ split.audio_size <= split.max_chunk_bytes) =>
        /\ split.pc = "returned"
        /\ split.returned = <<[path |-> AudioPath, size |-> split.audio_size]>>
        /\ split.probes = 0 /\ split.commands = 0 /\ split.disk = {}

C12_Witness ==
    /\ split.pc = "returned"
    /\ split.audio_size = split.max_chunk_bytes
    /\ split.max_chunk_bytes = MaxChunkBytes(chunk_threshold_mb)
    /\ Len(split.returned) = 1

\* C13: when the extraction of a chunk fails, every chunk file appended
\* earlier in the call is gone and AudioExtractionError is raised; and a
\* call that splits never returns fewer than num_chunks chunks.
C13_PartialChunksDiscarded ==
    /\ (split.pc = "raised" /\ split.commands > 0) =>
          /\ split.raised = "AudioExtractionError"
          /\ split.returned = << >>
          /\ \A j \in 1..Len(split.chunks) : split.chunks[j].path \notin split.disk
    /\ (split.pc = "returned" /\ split.commands > 0) =>
          Len(split.returned) = split.num_chunks

C13_Witness ==
    /\ split.pc = "raised"
    /\ split.commands = 3
    /\ Len(split.chunks) = 2
    /\ split.num_chunks > 2


\* C17: for one audio unit transcribe_audio makes at most two speech-to-text
\* calls, whatever the configured primary and fallback identifiers, equal
\* ones included.
C17_AtMostTwoCalls == asr.calls <= 2


\* C15: when process_video has returned, whatever the exit path, no
\* temporary file the run created is left.
C15_ArtifactsReleased ==
    \A r \in Runs : kind[r] = "pv" /\ pc[r] = "done" => local[r].files = {}

\* C16: the transcriptions table never holds more than one row of the job,
\* whatever runs overlap.
C16_AtMostOneRow == transcription.rows <= 1

C16_Witness ==
    /\ transcription.rows = 1
    /\ \E r \in Runs : pc[r] = "finally" /\ hist[r].failure = "save"

StageOfCall ==
    [download |-> "downloading", extract |-> "extracting_audio",
     split |-> "transcribing", transcribe |-> "transcribing",
     notes |-> "generating_notes"]

\* C20: whenever a run begins its download, extraction, split,
\* transcription or note generation, the corresponding stage is already the
\* committed status of the job, written by that run.
C20_StageBeforeCall ==
    [][\A r \in Runs : \A c \in DOMAIN StageOfCall :
          (c \in hist'[r].calls /\ c \notin hist[r].calls) =>
              /\ status = StageOfCall[c]
              /\ hist[r].stages # << >>
              /\ hist[r].stages[Len(hist[r].stages)] = StageOfCall[c]]_vars

C20_Witness ==
    \E r \in Runs :
        /\ kind[r] = "pv" /\ pc[r] = "s6"
        /\ hist[r].calls = {"download", "probe", "extract", "split", "transcribe", "notes"}
        /\ status = "generating_notes"


\* C14: once the transcription call of a chunk has failed,
\* transcribe_audio_chunks has raised and returns no text and no segments,
\* process_video goes to its failure handling and never past the
\* transcription, and the job's row holds no transcript text.
C14_ChunkFailureNoTranscript ==
    (\E i \in 1..chunks : task[i] = "err") =>
        /\ gatherPc = "raised"
        /\ combined = NoResult
        /\ transcription.transcript_text = "null"
        /\ \A r \in Runs :
              kind[r] = "pv" =>
                  /\ pc[r] \in {"gather", "s7", "finally", "done"}
                  /\ pc[r] \in {"s7", "finally"} => hist[r].failure = "transcribe"

C14_Witness ==
    /\ \E i \in 1..chunks : task[i] = "err"
    /\ \E j \in 1..chunks : task[j] = "ok" /\ taskResult[j] # NoResult
    /\ \E r \in Runs : kind[r] = "pv" /\ pc[r] = "done"
    /\ status = "failed"
    /\ transcription = ErrorRow("pv_error")


\* C21: when a run of process_video is about to return and every other
\* run has returned or has not begun, the job is in a terminal stage,
\* completed or failed.
C21_RunEndsTerminal ==
    \A r \in Runs :
        (PvAtFinally(r) /\ \A q \in Runs \ {r} : pc[q] \in {"idle", "done"}) =>
            status \in {"completed", "failed"}


\* C22: a delivery of process_video_task that found no transcription row
\* and met no failing collaborator ends with the job completed and one
\* transcription row holding the transcript.
C22_DeliveryCompletes ==
    \A r \in Runs :
        ( /\ kind[r] = "task" /\ pc[r] = "finally"
          /\ ~hist[r].hadRow
          /\ hist[r].failure = "none"
          /\ \A q \in Runs \ {r} : kind[q] = "none" ) =>
            /\ status = "completed"
            /\ transcription.transcript_text = "text"
            /\ transcription.rows = 1


C24_TasksFinished ==
    ( \/ gatherPc \in {"returned", "raised"}
      \/ \E r \in Runs : kind[r] = "pv" /\ pc[r] = "done" ) =>
        /\ Outstanding = {}
        /\ Waiting = {}


\* C25: no external collaborator call of a run is made while a database
\* session of the run is open: a step in which a run makes such a call
\* neither starts nor ends inside a session.
C25_NoSessionDuringCall ==
    [][\A r \in Runs :
          hist'[r].calls \ hist[r].calls # {} =>
              ~local[r].session /\ ~local'[r].session]_vars


\* C26: the model identifier transcribe_audio_chunks returns is the
\* identifier of the model that produced the transcript of every chunk.
C26_ModelOfEveryChunk ==
    gatherPc = "returned" =>
        \A i \in 1..chunks : combined.model = taskResult[i].model


\* C27: a redelivery of process_video_task for a job on which a failed run
\* has recorded its error, during which no collaborator fails, ends with
\* the job completed and a transcription row that holds the transcript.
C27_RedeliveryCompletes ==
    \A r \in Runs :
        ( /\ kind[r] = "task" /\ pc[r] = "finally"
          /\ hist[r].hadRow
          /\ transcription.error_message # "null"
          /\ hist[r].failure = "none"
          /\ \A q \in Runs \ {r} : ~Active(q) ) =>
            /\ status = "completed"
            /\ transcription.transcript_text = "text"


\* C28: when two overlapping deliveries of a job that had no transcription
\* row are both about to return, at most one of them has invoked the
\* transcription and note-generation collaborators, and the job is
\* completed with a transcript.
C28_OneRunTranscribes ==
    \A r1, r2 \in Runs :
        ( /\ r1 # r2
          /\ kind[r1] = "task" /\ pc[r1] = "finally" /\ ~hist[r1].hadRow
          /\ kind[r2] = "task" /\ pc[r2] = "finally" /\ ~hist[r2].hadRow ) =>
            /\ ~( /\ {"transcribe", "notes"} \cap hist[r1].calls # {}
                  /\ {"transcribe", "notes"} \cap hist[r2].calls # {} )
            /\ status = "completed"
            /\ transcription.transcript_text = "text"


\* C29: transcribe_audio_chunks terminates, by returning or by raising, for
\* every chunk list and every value of max_concurrent, and every chunk's
\* call is eventually admitted by the limiter.
C29_Terminates ==
    /\ <>(gatherPc \in {"returned", "raised"})
    /\ <>(Waiting = {})


\* C30: in every state in which the job's stage is completed, the job has
\* its transcription row and the row holds a transcript.
C30_CompletedHasTranscript ==
    status = "completed" =>
        /\ transcription.exists
        /\ transcription.rows = 1
        /\ transcription.transcript_text # "null"

\* a run has just committed the row and completed together while another
\* run is under way
C30_Witness ==
    \E r, q \in Runs :
        /\ kind[r] = "pv" /\ pc[r] \in {"tags", "finally"}
        /\ hist[r].rowWrites = 1
        /\ hist[r].stages[Len(hist[r].stages)] = "completed"
        /\ status = "completed"
        /\ transcription = ResultRow(local[r].notes)
        /\ q # r /\ Active(q)

====
